---- MODULE Spec2Model ----
(***************************************************************************)
(* The LiveView live-session manager of the video-sharing front end: the   *)
(* React state and refs of the component, the two user operations          *)
(* startLiveSession / stopLiveSession, and the four connection callbacks   *)
(* onopen / onmessage / onerror / onclose, as one state machine.           *)
(*                                                                         *)
(* JavaScript runs each handler to completion; a handler stops only at an  *)
(* await.  Every action below is one such run: from the event that starts  *)
(* it to its end or to its next await.  Continuations of an await on an    *)
(* already settled promise are microtasks and run before any other event,  *)
(* which the variables microtasks and decoding model.                      *)
(***************************************************************************)
EXTENDS Integers, Sequences, FiniteSets, TLC

\* ------------------------------------------------------------------ bounds
MaxStarts == 2          \* startLiveSession() calls in one behaviour
MaxPendingStops == 2    \* stopLiveSession() calls suspended at their await
MaxMessages == 3        \* messages delivered in one behaviour
MaxStopRun == 2         \* stopLiveSession() calls completed in a row
ChatStarts == 1         \* startLiveSession() calls in a behaviour with transcripts
MaxSuspended == 2       \* onmessage handlers suspended at their await at one time
MaxClock == 3           \* last reading of an output clock, in tenths of a second
MaxOpens == 2           \* times the payment modal is opened in one behaviour
MaxSubmits == 2         \* times the card form is submitted in one behaviour
MaxBytes == 4           \* length of a byte sequence given to encode
MaxSamples == 2         \* length of a sample array given to createBlob
MaxOffset == 2          \* distance of a sample from -2, -1, 0, 1 or 2, in 1/65536
MaxBlocks == 2          \* audio blocks captured in one behaviour
MaxFrames == 2          \* times the frame timer fires in one behaviour

\* The k-th call of startLiveSession is session k: its device stream, its two
\* audio contexts and its connection carry the same index.
Sessions == 1..MaxStarts

\* useRef(null): a ref that holds nothing.
NoRef == 0

\* errorMessage: null, or one of the two strings the code sets.
NoMessage == "null"
MediaErrorMessage ==
  "Could not access microphone and webcam. Please grant permission and try again."
LiveErrorMessage == "An error occurred with the live session. Please try again."

\* Transcript text is a sequence of deltas; string concatenation is \o.
\* <<>> is the empty string.  Times and durations are tenths of a second.

\* A LiveServerMessage: the optional parts of serverContent the handler reads.
\* audio = 0 stands for a message without inline audio data; otherwise audio
\* is the duration of the buffer the inline data decodes to.
ServerMessage(input, output, complete) ==
  [inputTranscription |-> input, outputTranscription |-> output,
   turnComplete |-> complete, audio |-> 0]

\* The messages of a transcript: an input delta, an output delta, a
\* turn-complete alone, and a turn-complete that carries a last input delta.
ServerMessages ==
  {ServerMessage(<<"a">>, <<>>, FALSE), ServerMessage(<<>>, <<"x">>, FALSE),
   ServerMessage(<<>>, <<>>, TRUE), ServerMessage(<<"b">>, <<>>, TRUE)}

\* Messages that carry inline audio only: buffers of 1.0 s, 0.5 s and 0.2 s.
Durations == {10, 5, 2}

AudioMessage(duration) ==
  [ServerMessage(<<>>, <<>>, FALSE) EXCEPT !.audio = duration]

AudioMessages == {AudioMessage(d) : d \in Durations}

\* A message whose inline audio data cannot be decoded: text that atob
\* rejects, or an odd number of bytes, which new Int16Array rejects.
MalformedMessage ==
  [ServerMessage(<<>>, <<>>, FALSE) EXCEPT !.audio = -1]

\* Every payload taken for decodable.
Decodable_Always(m) == TRUE

\* The inline audio data of m decodes to a buffer.
Decodable(m) == m.audio >= 0

\* Messages of the model's speech: an output delta together with the inline
\* audio of 0.5 s or 0.2 s, and an input delta alone.
DeltaMessages ==
  {[ServerMessage(<<>>, <<t>>, FALSE) EXCEPT !.audio = d] : t \in {"x", "y"}, d \in {5, 2}}
    \union {ServerMessage(<<"a">>, <<>>, FALSE)}

\* The statements of startLiveSession's try block that can throw once the
\* stream is there: the two AudioContext constructors and the GoogleGenAI
\* constructor.
ThrowSteps == {"inputContext", "outputContext", "client"}

VARIABLES
  \* React state of LiveView
  connectionState, errorMessage, history, currentInput, currentOutput,
  \* refs of LiveView
  sessionRef, inputAudioContextRef, outputAudioContextRef, scriptProcessorRef,
  mediaStreamSourceRef, mediaStreamRef, frameIntervalRef, nextStartTimeRef, sourcesRef,
  \* the objects the refs point to, per session
  stream,       \* MediaStream of getUserMedia: "none" | "live" | "stopped"
  inCtx,        \* input AudioContext: "none" | "open" | "closed"
  outCtx,       \* output AudioContext: "none" | "open" | "closed"
  proc,         \* ScriptProcessorNode made by onopen: "none" | "connected" | "disconnected"
  procCtx,      \* the session whose input context that node was created on
  timer,        \* frame interval made by onopen: "none" | "running" | "cleared"
  conn,         \* the connection: "none" | "connecting" | "open" | "closing" | "errored" | "closed"
  promise,      \* the Promise<LiveSession>: "none" | "pending" | "resolved" | "rejected"
  closeCalls,   \* how often session.close() was invoked
  capturedInput, capturedOutput,  \* currentInput/currentOutput in the callbacks' closure
  clock,        \* currentTime of the session's output AudioContext
  sources,      \* every AudioBufferSourceNode created, in creation order
  released,     \* the release calls of the last cleanupAudio run, in call order
  \* control
  gen,          \* startLiveSession invocations so far
  startPc,      \* where each invocation stands: "idle" | "awaitMedia" | "returned" | "failed"
  stopAwait,    \* sessions awaited by suspended stopLiveSession calls, in call order
  microtasks,   \* continuations of stopLiveSession that are ready to run
  decoding,     \* onmessage handlers suspended at await decodeAudioData, in order
  mounted,      \* the LiveView instance is mounted
  \* observers, written by no handler
  userStarts,          \* startLiveSession calls made by the user
  stopRun,             \* stopLiveSession calls completed in a row, nothing between
  stopDoneSinceStart,  \* a stopLiveSession call completed after the last start
  failedSinceStart,    \* the session of the last start failed: permission or error event
  turnIn, turnOut,     \* deltas received since the last turn-complete (or start)
  lastIn, lastOut,     \* the deltas of the turn the last turn-complete closed
  turnCompletes,       \* turn-complete events received
  delivered,           \* messages delivered
  lastMalformed        \* the last message delivered had a malformed audio payload

\* The mock payment flow of the App component.
VARIABLES
  isPaymentModalOpen,
  paymentItem,         \* NoItem for null, or the item being paid for
  paymentState,        \* "idle", "processing", "success" or "error"
  paymentError,
  purchasedVideoIds,   \* user.purchasedVideoIds
  subscribedChannelIds,\* user.subscribedChannelIds
  timeouts,            \* the pending setTimeout callbacks, in the order they were set
  nextTimeoutId,       \* the id setTimeout returns next
  opens,               \* times the modal was opened
  submits,             \* times the card form was submitted
  abandoned,           \* ids of the confirmation timers pending at a close while 'processing'
  closedProcessing     \* the modal was closed while 'processing' and not opened since

reactState == <<connectionState, errorMessage, history, currentInput, currentOutput>>
refs == <<sessionRef, inputAudioContextRef, outputAudioContextRef, scriptProcessorRef,
          mediaStreamSourceRef, mediaStreamRef, frameIntervalRef, nextStartTimeRef, sourcesRef>>
objects == <<stream, inCtx, outCtx, proc, procCtx, timer, conn, promise, closeCalls,
             capturedInput, capturedOutput, clock, sources, released>>
control == <<gen, startPc, stopAwait, microtasks, decoding, mounted>>
observers == <<userStarts, stopRun, stopDoneSinceStart, failedSinceStart,
               turnIn, turnOut, lastIn, lastOut, turnCompletes, delivered,
               lastMalformed>>

\* The audio helpers: their arguments and results.
VARIABLES
  byteInput,           \* the Uint8Array given to encode
  encoded,             \* the text encode returned
  byteOutput,          \* the Uint8Array decode returned
  transportPc,         \* "input", "encoded" or "decoded"
  floatInput,          \* the Float32Array given to createBlob
  blob,                \* the Blob createBlob returned
  channelData,         \* channel 0 of the AudioBuffer decodeAudioData returned
  pcmPc                \* "input", "blob" or "buffer"

\* The capture pipeline: what it has in flight and what it has sent.
VARIABLES
  audioQueue,          \* per session: audioprocess events queued for its processor
  frameJobs,           \* the frames whose toBlob callback has not finished
  sends,               \* per session: sendRealtimeInput calls on its connection
  blocks,              \* audio blocks captured
  frames               \* times a frame timer fired

liveView == <<reactState, refs, objects, control, observers>>

capture == <<audioQueue, frameJobs, sends, blocks, frames>>

codec == <<byteInput, encoded, byteOutput, transportPc, floatInput, blob,
           channelData, pcmPc>>

payment == <<isPaymentModalOpen, paymentItem, paymentState, paymentError,
             purchasedVideoIds, subscribedChannelIds, timeouts, nextTimeoutId,
             opens, submits, abandoned, closedProcessing>>

\* The state of the parts of the application outside the live view.
elsewhere == <<payment, codec, capture>>

vars == <<liveView, elsewhere>>

InitLiveView ==
  /\ connectionState = "disconnected"
  /\ errorMessage = NoMessage
  /\ history = <<>>
  /\ currentInput = <<>>
  /\ currentOutput = <<>>
  /\ sessionRef = NoRef
  /\ inputAudioContextRef = NoRef
  /\ outputAudioContextRef = NoRef
  /\ scriptProcessorRef = NoRef
  /\ mediaStreamSourceRef = NoRef
  /\ mediaStreamRef = NoRef
  /\ frameIntervalRef = NoRef
  /\ nextStartTimeRef = 0
  /\ sourcesRef = {}
  /\ stream = [g \in Sessions |-> "none"]
  /\ inCtx = [g \in Sessions |-> "none"]
  /\ outCtx = [g \in Sessions |-> "none"]
  /\ proc = [g \in Sessions |-> "none"]
  /\ procCtx = [g \in Sessions |-> NoRef]
  /\ timer = [g \in Sessions |-> "none"]
  /\ conn = [g \in Sessions |-> "none"]
  /\ promise = [g \in Sessions |-> "none"]
  /\ closeCalls = [g \in Sessions |-> 0]
  /\ capturedInput = [g \in Sessions |-> <<>>]
  /\ capturedOutput = [g \in Sessions |-> <<>>]
  /\ clock = [g \in Sessions |-> 0]
  /\ sources = <<>>
  /\ released = <<>>
  /\ gen = 0
  /\ startPc = [g \in Sessions |-> "idle"]
  /\ stopAwait = <<>>
  /\ microtasks = <<>>
  /\ decoding = <<>>
  /\ mounted = TRUE
  /\ userStarts = 0
  /\ stopRun = 0
  /\ stopDoneSinceStart = FALSE
  /\ failedSinceStart = FALSE
  /\ turnIn = <<>>
  /\ turnOut = <<>>
  /\ lastIn = <<>>
  /\ lastOut = <<>>
  /\ turnCompletes = 0
  /\ delivered = 0
  /\ lastMalformed = FALSE

\* null of paymentItem.
NoItem == [type |-> "none", id |-> ""]

InitPayment ==
  /\ isPaymentModalOpen = FALSE
  /\ paymentItem = NoItem
  /\ paymentState = "idle"
  /\ paymentError = ""
  /\ purchasedVideoIds = <<>>
  /\ subscribedChannelIds = <<"ch_tech", "ch_gaming">>
  /\ timeouts = <<>>
  /\ nextTimeoutId = 1
  /\ opens = 0
  /\ submits = 0
  /\ abandoned = {}
  /\ closedProcessing = FALSE

\* No Blob.
NoBlob == [data |-> <<>>, mimeType |-> ""]

InitCodecOutputs ==
  /\ encoded = <<>>
  /\ byteOutput = <<>>
  /\ transportPc = "input"
  /\ blob = NoBlob
  /\ channelData = <<>>
  /\ pcmPc = "input"

InitCodec ==
  /\ byteInput = <<>>
  /\ floatInput = <<>>
  /\ InitCodecOutputs

InitCapture ==
  /\ audioQueue = [g \in Sessions |-> 0]
  /\ frameJobs = <<>>
  /\ sends = [g \in Sessions |-> 0]
  /\ blocks = 0
  /\ frames = 0

Init == InitLiveView /\ InitPayment /\ InitCodec /\ InitCapture

\* ------------------------------------------------------------ the handlers

\* One release call of cleanupAudio on the object a ref holds.
Release(call, ref) == << [call |-> call, object |-> ref] >>

\* The calls cleanupAudio makes, in the order of its statements.
releaseCalls ==
     (IF frameIntervalRef # NoRef
        THEN Release("clearInterval", frameIntervalRef) ELSE <<>>)
  \o (IF scriptProcessorRef # NoRef /\ mediaStreamSourceRef # NoRef
        THEN Release("scriptProcessor.disconnect", scriptProcessorRef)
               \o Release("mediaStreamSource.disconnect", mediaStreamSourceRef)
        ELSE <<>>)
  \o (IF mediaStreamRef # NoRef
        THEN Release("track.stop", mediaStreamRef) ELSE <<>>)
  \o (IF inputAudioContextRef # NoRef /\ inCtx[inputAudioContextRef] # "closed"
        THEN Release("inputAudioContext.close", inputAudioContextRef) ELSE <<>>)
  \o (IF outputAudioContextRef # NoRef /\ outCtx[outputAudioContextRef] # "closed"
        THEN Release("outputAudioContext.close", outputAudioContextRef) ELSE <<>>)

\* cleanupAudio with the device stream's ref left set.
cleanupAudio_KeepStreamRef ==
  /\ released' = releaseCalls
  /\ frameIntervalRef' = NoRef
  /\ timer' = IF frameIntervalRef # NoRef
                THEN [timer EXCEPT ![frameIntervalRef] = "cleared"] ELSE timer
  /\ IF scriptProcessorRef # NoRef /\ mediaStreamSourceRef # NoRef
       THEN /\ proc' = [proc EXCEPT ![scriptProcessorRef] = "disconnected"]
            /\ scriptProcessorRef' = NoRef
            /\ mediaStreamSourceRef' = NoRef
       ELSE UNCHANGED <<proc, scriptProcessorRef, mediaStreamSourceRef>>
  /\ mediaStreamRef' = mediaStreamRef
  /\ stream' = IF mediaStreamRef # NoRef
                 THEN [stream EXCEPT ![mediaStreamRef] = "stopped"] ELSE stream
  /\ IF inputAudioContextRef # NoRef /\ inCtx[inputAudioContextRef] # "closed"
       THEN /\ inCtx' = [inCtx EXCEPT ![inputAudioContextRef] = "closed"]
            /\ inputAudioContextRef' = NoRef
       ELSE UNCHANGED <<inCtx, inputAudioContextRef>>
  /\ IF outputAudioContextRef # NoRef /\ outCtx[outputAudioContextRef] # "closed"
       THEN /\ outCtx' = [outCtx EXCEPT ![outputAudioContextRef] = "closed"]
            /\ outputAudioContextRef' = NoRef
       ELSE UNCHANGED <<outCtx, outputAudioContextRef>>
  /\ UNCHANGED procCtx

\* cleanupAudio: each step guarded by the ref it releases.  sourcesRef and
\* nextStartTimeRef are not among its statements.
cleanupAudio ==
  /\ released' = releaseCalls
  /\ frameIntervalRef' = NoRef
  /\ timer' = IF frameIntervalRef # NoRef
                THEN [timer EXCEPT ![frameIntervalRef] = "cleared"] ELSE timer
  /\ IF scriptProcessorRef # NoRef /\ mediaStreamSourceRef # NoRef
       THEN /\ proc' = [proc EXCEPT ![scriptProcessorRef] = "disconnected"]
            /\ scriptProcessorRef' = NoRef
            /\ mediaStreamSourceRef' = NoRef
       ELSE UNCHANGED <<proc, scriptProcessorRef, mediaStreamSourceRef>>
  /\ mediaStreamRef' = NoRef
  /\ stream' = IF mediaStreamRef # NoRef
                 THEN [stream EXCEPT ![mediaStreamRef] = "stopped"] ELSE stream
  /\ IF inputAudioContextRef # NoRef /\ inCtx[inputAudioContextRef] # "closed"
       THEN /\ inCtx' = [inCtx EXCEPT ![inputAudioContextRef] = "closed"]
            /\ inputAudioContextRef' = NoRef
       ELSE UNCHANGED <<inCtx, inputAudioContextRef>>
  /\ IF outputAudioContextRef # NoRef /\ outCtx[outputAudioContextRef] # "closed"
       THEN /\ outCtx' = [outCtx EXCEPT ![outputAudioContextRef] = "closed"]
            /\ outputAudioContextRef' = NoRef
       ELSE UNCHANGED <<outCtx, outputAudioContextRef>>
  /\ UNCHANGED procCtx

\* What cleanupAudio writes.
cleaned == <<frameIntervalRef, timer, proc, scriptProcessorRef, mediaStreamSourceRef,
             mediaStreamRef, stream, inCtx, inputAudioContextRef, outCtx,
             outputAudioContextRef, procCtx, released>>

\* stopTail, ending as onerror does: the state set to 'error'.
stopTail_AsError ==
  /\ cleanupAudio
  /\ connectionState' = "error"
  /\ currentInput' = <<>>
  /\ currentOutput' = <<>>

\* stopLiveSession after its if-block: teardown, state, buffers.
stopTail ==
  /\ cleanupAudio
  /\ connectionState' = "disconnected"
  /\ currentInput' = <<>>
  /\ currentOutput' = <<>>

\* stopLiveSession resumed with the resolved session g: close it, drop the ref.
stopAfterAwait(g) ==
  /\ closeCalls' = [closeCalls EXCEPT ![g] = @ + 1]
  /\ conn' = [conn EXCEPT ![g] = IF @ = "open" THEN "closing" ELSE @]
  /\ sessionRef' = NoRef
  /\ stopTail

\* stopLiveSession with the teardown and the buffer reset moved before the
\* await of the session.
stopLiveSession_TeardownFirst ==
  IF sessionRef = NoRef
    THEN /\ stopTail
         /\ stopRun' = stopRun + 1
         /\ stopDoneSinceStart' = TRUE
         /\ UNCHANGED <<closeCalls, conn, sessionRef, stopAwait>>
    ELSE CASE promise[sessionRef] = "resolved" ->
                /\ stopAfterAwait(sessionRef)
                /\ stopRun' = stopRun + 1
                /\ stopDoneSinceStart' = TRUE
                /\ UNCHANGED stopAwait
           [] promise[sessionRef] = "pending" ->
                /\ Len(stopAwait) < MaxPendingStops
                /\ stopAwait' = Append(stopAwait, sessionRef)
                /\ stopRun' = 0
                /\ stopTail
                /\ UNCHANGED <<closeCalls, conn, sessionRef, stopDoneSinceStart>>
           [] OTHER ->
                /\ stopRun' = 0
                /\ UNCHANGED <<cleaned, connectionState, currentInput, currentOutput,
                               closeCalls, conn, sessionRef, stopAwait, stopDoneSinceStart>>

\* stopLiveSession up to its end or its await.
\*   no session ref: the if-block is skipped and the call runs to its end;
\*   resolved promise: the await resumes in a microtask, before any other event;
\*   pending promise: the call is suspended;
\*   rejected promise: the await throws and the call ends there.
stopLiveSession ==
  IF sessionRef = NoRef
    THEN /\ stopTail
         /\ stopRun' = stopRun + 1
         /\ stopDoneSinceStart' = TRUE
         /\ UNCHANGED <<closeCalls, conn, sessionRef, stopAwait>>
    ELSE CASE promise[sessionRef] = "resolved" ->
                /\ stopAfterAwait(sessionRef)
                /\ stopRun' = stopRun + 1
                /\ stopDoneSinceStart' = TRUE
                /\ UNCHANGED stopAwait
           [] promise[sessionRef] = "pending" ->
                /\ Len(stopAwait) < MaxPendingStops
                /\ stopAwait' = Append(stopAwait, sessionRef)
                /\ stopRun' = 0
                /\ UNCHANGED <<cleaned, connectionState, currentInput, currentOutput,
                               closeCalls, conn, sessionRef, stopDoneSinceStart>>
           [] OTHER ->
                /\ stopRun' = 0
                /\ UNCHANGED <<cleaned, connectionState, currentInput, currentOutput,
                               closeCalls, conn, sessionRef, stopAwait, stopDoneSinceStart>>

\* startLiveSession up to its await of getUserMedia.  The callbacks it will
\* pass to connect close over this render's currentInput and currentOutput.
startLiveSession ==
  /\ gen' = gen + 1
  /\ connectionState' = "connecting"
  /\ errorMessage' = NoMessage
  /\ history' = <<>>
  /\ startPc' = [startPc EXCEPT ![gen + 1] = "awaitMedia"]
  /\ capturedInput' = [capturedInput EXCEPT ![gen + 1] = currentInput]
  /\ capturedOutput' = [capturedOutput EXCEPT ![gen + 1] = currentOutput]

\* startLiveSession resumed with the stream: refs are overwritten, the
\* connection is requested.
startAfterMedia(g) ==
  /\ mediaStreamRef' = g
  /\ stream' = [stream EXCEPT ![g] = "live"]
  /\ inputAudioContextRef' = g
  /\ inCtx' = [inCtx EXCEPT ![g] = "open"]
  /\ outputAudioContextRef' = g
  /\ outCtx' = [outCtx EXCEPT ![g] = "open"]
  /\ sessionRef' = g
  /\ conn' = [conn EXCEPT ![g] = "connecting"]
  /\ promise' = [promise EXCEPT ![g] = "pending"]
  /\ startPc' = [startPc EXCEPT ![g] = "returned"]

\* startLiveSession resumed with the stream, a later statement of the try
\* block throwing: what was assigned before the throw stays assigned.
startAfterMediaThrows(g, step) ==
  /\ mediaStreamRef' = g
  /\ stream' = [stream EXCEPT ![g] = "live"]
  /\ IF step \in {"outputContext", "client"}
       THEN /\ inputAudioContextRef' = g
            /\ inCtx' = [inCtx EXCEPT ![g] = "open"]
       ELSE UNCHANGED <<inputAudioContextRef, inCtx>>
  /\ IF step = "client"
       THEN /\ outputAudioContextRef' = g
            /\ outCtx' = [outCtx EXCEPT ![g] = "open"]
       ELSE UNCHANGED <<outputAudioContextRef, outCtx>>

\* startLiveSession's catch block.
startCatch(g) ==
  /\ errorMessage' = MediaErrorMessage
  /\ connectionState' = "error"
  /\ startPc' = [startPc EXCEPT ![g] = "failed"]

\* onopen of session g's connection.  inputAudioContextRef.current! is
\* dereferenced after the state is set: with an empty ref the callback throws
\* there.  The frame timer is started if the video and canvas elements are
\* there, which they are while the view is mounted.
onopen(g) ==
  /\ connectionState' = "connected"
  /\ IF inputAudioContextRef = NoRef
       THEN UNCHANGED <<mediaStreamSourceRef, scriptProcessorRef, proc, procCtx,
                        frameIntervalRef, timer>>
       ELSE /\ mediaStreamSourceRef' = g
            /\ scriptProcessorRef' = g
            /\ proc' = [proc EXCEPT ![g] = "connected"]
            /\ procCtx' = [procCtx EXCEPT ![g] = inputAudioContextRef]
            /\ IF mounted
                 THEN /\ frameIntervalRef' = g
                      /\ timer' = [timer EXCEPT ![g] = "running"]
                 ELSE UNCHANGED <<frameIntervalRef, timer>>

\* Math.max returning the smaller argument.
Max_AsMin(a, b) == IF a >= b THEN b ELSE a

\* Math.max.
Max(a, b) == IF a >= b THEN a ELSE b

\* setHistory(prev => [...prev, You, Gemini]).
appendTurn(prev, fullInput, fullOutput) ==
  prev \o << [author |-> "You", text |-> fullInput],
             [author |-> "Gemini", text |-> fullOutput] >>

\* bufferAfter without the reset at turn-complete.
bufferAfter_NoReset(prev, temp, turnComplete) == prev \o temp

\* A transcript buffer after one message: the functional update, then the
\* reset when the message completes the turn.
bufferAfter(prev, temp, turnComplete) ==
  IF turnComplete THEN <<>> ELSE prev \o temp

\* await with the continuation put before the ones already waiting.
suspend_First(handler) == <<handler>> \o decoding

\* await decodeAudioData(...): the handler's continuation is queued behind the
\* continuations already waiting.
suspend(handler) == Append(decoding, handler)

\* onmessage of session g's connection, for message m (the delivered + 1 st
\* message), up to its end or to its await of decodeAudioData.  With inline
\* audio and an empty outputAudioContextRef the handler throws at
\* outputAudioContext.currentTime; with a malformed payload it throws at
\* decode or in decodeAudioData, after the Math.max statement.
onmessage(g, m) ==
  LET tempInput == m.inputTranscription
      tempOutput == m.outputTranscription
      fullInput == capturedInput[g] \o tempInput
      fullOutput == capturedOutput[g] \o tempOutput
  IN /\ currentInput' = bufferAfter(currentInput, tempInput, m.turnComplete)
     /\ currentOutput' = bufferAfter(currentOutput, tempOutput, m.turnComplete)
     /\ history' = IF m.turnComplete
                     THEN appendTurn(history, fullInput, fullOutput) ELSE history
     /\ IF m.audio # 0 /\ outputAudioContextRef # NoRef
          THEN /\ nextStartTimeRef' = Max(nextStartTimeRef, clock[outputAudioContextRef])
               /\ decoding' = IF Decodable(m)
                                THEN suspend([outputAudioContext |-> outputAudioContextRef,
                                              duration |-> m.audio,
                                              message |-> delivered + 1,
                                              session |-> g])
                                ELSE decoding
          ELSE UNCHANGED <<nextStartTimeRef, decoding>>

\* The source onmessage creates for a decoded buffer and starts at the value
\* nextStartTimeRef holds.
BufferSource(outputAudioContext, duration, message, session) ==
  [context |-> outputAudioContext, start |-> nextStartTimeRef,
   duration |-> duration, state |-> "scheduled", message |-> message,
   session |-> session]

\* onmessage resumed without moving nextStartTimeRef on.
onmessageAfterDecode_NoAdvance ==
  LET handler == Head(decoding)
  IN /\ sources' = Append(sources,
                          BufferSource(handler.outputAudioContext, handler.duration,
                                       handler.message, handler.session))
     /\ nextStartTimeRef' = nextStartTimeRef
     /\ sourcesRef' = sourcesRef \union {Len(sources) + 1}

\* onmessage resumed with the decoded buffer, the first suspended handler
\* first: the source is created, started, and added to sourcesRef.
onmessageAfterDecode ==
  LET handler == Head(decoding)
  IN /\ sources' = Append(sources,
                          BufferSource(handler.outputAudioContext, handler.duration,
                                       handler.message, handler.session))
     /\ nextStartTimeRef' = nextStartTimeRef + handler.duration
     /\ sourcesRef' = sourcesRef \union {Len(sources) + 1}

\* The 'ended' listener of a source that drops every source.
ended_ClearAll(source) ==
  sourcesRef' = {}

\* The 'ended' listener of source number source.
ended(source) ==
  sourcesRef' = sourcesRef \ {source}

\* onerror of a connection.
onerror ==
  /\ errorMessage' = LiveErrorMessage
  /\ connectionState' = "error"
  /\ cleanupAudio

\* onclose of a connection.
onclose ==
  /\ connectionState' = "disconnected"
  /\ cleanupAudio

\* ------------------------------------------------------------- the events

\* The user, or a caller of the component's functions, invokes
\* startLiveSession.
Start(limit) ==
  /\ microtasks = <<>>
  /\ decoding = <<>>
  /\ gen < limit
  /\ startLiveSession
  /\ userStarts' = userStarts + 1
  /\ stopRun' = 0
  /\ stopDoneSinceStart' = FALSE
  /\ failedSinceStart' = FALSE
  /\ turnIn' = <<>>
  /\ turnOut' = <<>>
  /\ UNCHANGED <<currentInput, currentOutput, refs, stream, inCtx, outCtx, proc, procCtx,
                 timer, conn, promise, closeCalls, clock, sources, released,
                 stopAwait, microtasks, decoding, mounted,
                 lastIn, lastOut, turnCompletes, delivered, lastMalformed, elsewhere>>

CallStart == Start(MaxStarts)

\* stopLiveSession is invoked.
CallStop ==
  /\ microtasks = <<>>
  /\ decoding = <<>>
  /\ stopRun < MaxStopRun
  /\ stopLiveSession
  /\ UNCHANGED <<errorMessage, history, nextStartTimeRef, sourcesRef, promise,
                 capturedInput, capturedOutput, clock, sources, gen, startPc,
                 microtasks, decoding, mounted,
                 userStarts, failedSinceStart, turnIn, turnOut, lastIn, lastOut,
                 turnCompletes, delivered, lastMalformed, elsewhere>>

\* A suspended stopLiveSession resumes: its session promise has resolved.
StopResume ==
  /\ microtasks # <<>>
  /\ stopAfterAwait(Head(microtasks))
  /\ microtasks' = Tail(microtasks)
  /\ stopRun' = stopRun + 1
  /\ stopDoneSinceStart' = TRUE
  /\ UNCHANGED <<errorMessage, history, nextStartTimeRef, sourcesRef, promise,
                 capturedInput, capturedOutput, clock, sources, gen, startPc,
                 stopAwait, decoding, mounted,
                 userStarts, failedSinceStart, turnIn, turnOut, lastIn, lastOut,
                 turnCompletes, delivered, lastMalformed, elsewhere>>

\* getUserMedia of call g resolves with a stream.
MediaResolve(g) ==
  /\ microtasks = <<>>
  /\ decoding = <<>>
  /\ startPc[g] = "awaitMedia"
  /\ startAfterMedia(g)
  /\ stopRun' = 0
  /\ UNCHANGED <<reactState, scriptProcessorRef, mediaStreamSourceRef, frameIntervalRef,
                 nextStartTimeRef, sourcesRef, proc, procCtx, timer, closeCalls,
                 capturedInput, capturedOutput, clock, sources, released, gen,
                 stopAwait, microtasks, decoding, mounted,
                 userStarts, stopDoneSinceStart, failedSinceStart,
                 turnIn, turnOut, lastIn, lastOut, turnCompletes, delivered, lastMalformed, elsewhere>>

\* getUserMedia of call g resolves and a later statement of the try block
\* throws: the catch block runs.
MediaResolveThrow(g, step) ==
  /\ microtasks = <<>>
  /\ decoding = <<>>
  /\ startPc[g] = "awaitMedia"
  /\ startAfterMediaThrows(g, step)
  /\ startCatch(g)
  /\ stopRun' = 0
  /\ failedSinceStart' = (failedSinceStart \/ g = gen)
  /\ UNCHANGED <<history, currentInput, currentOutput, sessionRef, scriptProcessorRef,
                 mediaStreamSourceRef, frameIntervalRef, nextStartTimeRef, sourcesRef,
                 proc, procCtx, timer, conn, promise, closeCalls, capturedInput,
                 capturedOutput, clock, sources, released, gen, stopAwait, microtasks,
                 decoding, mounted, userStarts, stopDoneSinceStart,
                 turnIn, turnOut, lastIn, lastOut, turnCompletes, delivered, lastMalformed, elsewhere>>

\* getUserMedia of call g rejects: permission denied, or no device.
MediaReject(g) ==
  /\ microtasks = <<>>
  /\ decoding = <<>>
  /\ startPc[g] = "awaitMedia"
  /\ startCatch(g)
  /\ stopRun' = 0
  /\ failedSinceStart' = (failedSinceStart \/ g = gen)
  /\ UNCHANGED <<history, currentInput, currentOutput, refs, objects, gen, stopAwait,
                 microtasks, decoding, mounted, userStarts, stopDoneSinceStart,
                 turnIn, turnOut, lastIn, lastOut, turnCompletes, delivered, lastMalformed, elsewhere>>

\* The promise of ai.live.connect rejects before the connection opens.  Every
\* stopLiveSession suspended on it throws at its await.
ConnectReject(g) ==
  /\ microtasks = <<>>
  /\ decoding = <<>>
  /\ promise[g] = "pending"
  /\ conn[g] = "connecting"
  /\ promise' = [promise EXCEPT ![g] = "rejected"]
  /\ conn' = [conn EXCEPT ![g] = "closed"]
  /\ stopAwait' = SelectSeq(stopAwait, LAMBDA h : h # g)
  /\ stopRun' = 0
  /\ UNCHANGED <<reactState, refs, stream, inCtx, outCtx, proc, procCtx, timer, closeCalls,
                 capturedInput, capturedOutput, clock, sources, released, gen, startPc,
                 microtasks, decoding, mounted,
                 userStarts, stopDoneSinceStart, failedSinceStart,
                 turnIn, turnOut, lastIn, lastOut, turnCompletes, delivered, lastMalformed, elsewhere>>

\* The connection of session g opens: onopen runs, then the session promise
\* resolves and the stopLiveSession calls suspended on it become ready.
OnOpen(g) ==
  /\ microtasks = <<>>
  /\ decoding = <<>>
  /\ conn[g] = "connecting"
  /\ onopen(g)
  /\ conn' = [conn EXCEPT ![g] = "open"]
  /\ promise' = [promise EXCEPT ![g] = "resolved"]
  /\ microtasks' = SelectSeq(stopAwait, LAMBDA h : h = g)
  /\ stopAwait' = SelectSeq(stopAwait, LAMBDA h : h # g)
  /\ stopRun' = 0
  /\ UNCHANGED <<errorMessage, history, currentInput, currentOutput, sessionRef,
                 inputAudioContextRef, outputAudioContextRef, mediaStreamRef,
                 nextStartTimeRef, sourcesRef, stream, inCtx, outCtx, closeCalls,
                 capturedInput, capturedOutput, clock, sources, released, gen, startPc,
                 decoding, mounted,
                 userStarts, stopDoneSinceStart, failedSinceStart,
                 turnIn, turnOut, lastIn, lastOut, turnCompletes, delivered, lastMalformed, elsewhere>>

\* The connection of session g delivers message m.
OnMessage(g, m) ==
  /\ microtasks = <<>>
  /\ Len(decoding) < MaxSuspended
  /\ conn[g] \in {"open", "closing"}
  /\ delivered < MaxMessages
  /\ delivered' = delivered + 1
  /\ lastMalformed' = (m = MalformedMessage)
  /\ onmessage(g, m)
  /\ stopRun' = 0
  /\ turnIn' = IF m.turnComplete THEN <<>> ELSE turnIn \o m.inputTranscription
  /\ turnOut' = IF m.turnComplete THEN <<>> ELSE turnOut \o m.outputTranscription
  /\ lastIn' = IF m.turnComplete THEN turnIn \o m.inputTranscription ELSE lastIn
  /\ lastOut' = IF m.turnComplete THEN turnOut \o m.outputTranscription ELSE lastOut
  /\ turnCompletes' = IF m.turnComplete THEN turnCompletes + 1 ELSE turnCompletes
  /\ UNCHANGED <<connectionState, errorMessage, sessionRef, inputAudioContextRef,
                 outputAudioContextRef, scriptProcessorRef, mediaStreamSourceRef,
                 mediaStreamRef, frameIntervalRef, sourcesRef, objects,
                 gen, startPc, stopAwait, microtasks, mounted,
                 userStarts, stopDoneSinceStart, failedSinceStart, elsewhere>>

\* The connection of session g reports an error.
OnError(g) ==
  /\ microtasks = <<>>
  /\ decoding = <<>>
  /\ conn[g] \in {"connecting", "open"}
  /\ onerror
  /\ conn' = [conn EXCEPT ![g] = "errored"]
  /\ stopRun' = 0
  /\ failedSinceStart' = (failedSinceStart \/ g = gen)
  /\ UNCHANGED <<history, currentInput, currentOutput, sessionRef, nextStartTimeRef,
                 sourcesRef, promise, closeCalls, capturedInput, capturedOutput, clock,
                 sources, control, userStarts, stopDoneSinceStart,
                 turnIn, turnOut, lastIn, lastOut, turnCompletes, delivered, lastMalformed, elsewhere>>

\* The connection of session g closes: by the server, after close() or after
\* an error.
OnClose(g) ==
  /\ microtasks = <<>>
  /\ decoding = <<>>
  /\ conn[g] \in {"open", "closing", "errored"}
  /\ onclose
  /\ conn' = [conn EXCEPT ![g] = "closed"]
  /\ stopRun' = 0
  /\ UNCHANGED <<errorMessage, history, currentInput, currentOutput, sessionRef,
                 nextStartTimeRef, sourcesRef, promise, closeCalls, capturedInput,
                 capturedOutput, clock, sources, control, userStarts,
                 stopDoneSinceStart,
                 failedSinceStart, turnIn, turnOut, lastIn, lastOut, turnCompletes,
                 delivered, lastMalformed, elsewhere>>

\* The first suspended onmessage handler resumes: decodeAudioData has
\* returned its buffer.
AudioResume ==
  /\ decoding # <<>>
  /\ onmessageAfterDecode
  /\ decoding' = Tail(decoding)
  /\ UNCHANGED <<reactState, sessionRef, inputAudioContextRef, outputAudioContextRef,
                 scriptProcessorRef, mediaStreamSourceRef, mediaStreamRef,
                 frameIntervalRef, stream, inCtx, outCtx, proc, procCtx, timer, conn,
                 promise, closeCalls, capturedInput, capturedOutput, clock, released,
                 gen, startPc, stopAwait, microtasks, mounted, observers, elsewhere>>

\* The output clock of session g advances; a closed context's clock stands.
\* currentTime is one value throughout a task and its microtasks.
Tick(g) ==
  /\ microtasks = <<>>
  /\ decoding = <<>>
  /\ outCtx[g] = "open"
  /\ \E t \in (clock[g] + 1)..MaxClock : clock' = [clock EXCEPT ![g] = t]
  /\ UNCHANGED <<reactState, refs, stream, inCtx, outCtx, proc, procCtx, timer, conn,
                 promise, closeCalls, capturedInput, capturedOutput, sources, released,
                 control, observers, elsewhere>>

\* Source number i has played to its end: its 'ended' event is dispatched.
SourceEnded(i) ==
  /\ microtasks = <<>>
  /\ decoding = <<>>
  /\ i \in DOMAIN sources
  /\ sources[i].state = "scheduled"
  /\ clock[sources[i].context] >= sources[i].start + sources[i].duration
  /\ sources' = [sources EXCEPT ![i].state = "ended"]
  /\ ended(i)
  /\ UNCHANGED <<reactState, sessionRef, inputAudioContextRef, outputAudioContextRef,
                 scriptProcessorRef, mediaStreamSourceRef, mediaStreamRef,
                 frameIntervalRef, nextStartTimeRef, stream, inCtx, outCtx, proc,
                 procCtx, timer, conn, promise, closeCalls, capturedInput,
                 capturedOutput, clock, released, control, observers, elsewhere>>

\* The effect cleanup of LiveView: stopLiveSession is called if a session
\* ref is set.
unmount ==
  IF sessionRef # NoRef
    THEN stopLiveSession
    ELSE UNCHANGED <<cleaned, connectionState, currentInput, currentOutput, closeCalls,
                     conn, sessionRef, stopAwait, stopRun, stopDoneSinceStart>>

\* The view is unmounted: the user leaves the live view.
Unmount ==
  /\ microtasks = <<>>
  /\ decoding = <<>>
  /\ mounted
  /\ mounted' = FALSE
  /\ unmount
  /\ UNCHANGED <<errorMessage, history, nextStartTimeRef, sourcesRef, promise,
                 capturedInput, capturedOutput, clock, sources, gen, startPc,
                 microtasks, decoding,
                 userStarts, failedSinceStart, turnIn, turnOut, lastIn, lastOut,
                 turnCompletes, delivered, lastMalformed, elsewhere>>

\* The live-controls of the rendered view: Start is shown unless the state is
\* connecting or connected, Stop otherwise.
StartShown == connectionState # "connected" /\ connectionState # "connecting"

ClickStart == mounted /\ StartShown /\ CallStart

ClickStop == mounted /\ ~StartShown /\ CallStop

Lifecycle(g) ==
  \/ MediaResolve(g)
  \/ (\E step \in ThrowSteps : MediaResolveThrow(g, step))
  \/ MediaReject(g)
  \/ ConnectReject(g)
  \/ OnOpen(g)
  \/ OnError(g)
  \/ OnClose(g)

\* The session life cycle: the functions called in any state, as a test of
\* the component calls them, and every connection event but the messages
\* (onmessage writes the transcript and the playback schedule only).
Next == CallStart \/ CallStop \/ StopResume \/ \E g \in Sessions : Lifecycle(g)

Spec == Init /\ [][Next]_vars

\* The same, the functions called only through the buttons the view shows,
\* until the view is unmounted.
NextUI ==
  \/ ClickStart
  \/ ClickStop
  \/ StopResume
  \/ Unmount
  \/ \E g \in Sessions : Lifecycle(g)

SpecUI == Init /\ [][NextUI]_vars

\* The transcript: the life cycle of ChatStarts sessions with the messages
\* their connections deliver.
ChatStart == Start(ChatStarts)

NextChat ==
  \/ ChatStart
  \/ CallStop
  \/ StopResume
  \/ \E g \in Sessions : Lifecycle(g)
  \/ \E g \in Sessions, m \in ServerMessages : OnMessage(g, m)

SpecChat == Init /\ [][NextChat]_vars

\* The playback schedule of a view's first session: its life cycle with the
\* audio its connection delivers, the output clock and the 'ended' events.
FirstStart == gen = 0 /\ CallStart

NextAudio ==
  \/ FirstStart
  \/ CallStop
  \/ StopResume
  \/ AudioResume
  \/ \E g \in Sessions : Lifecycle(g) \/ Tick(g)
  \/ \E g \in Sessions, m \in AudioMessages : OnMessage(g, m)
  \/ \E i \in 1..MaxMessages : SourceEnded(i)

SpecAudio == Init /\ [][NextAudio]_vars

\* Sessions one after the other in one view: the live-controls, the life
\* cycle of each session, and a payload of 0.5 s, an input delta and a
\* turn-complete among the messages.
RestartMessages ==
  {AudioMessage(5), ServerMessage(<<"a">>, <<>>, FALSE), ServerMessage(<<>>, <<>>, TRUE)}

NextRestart ==
  \/ ClickStart
  \/ ClickStop
  \/ StopResume
  \/ AudioResume
  \/ \E g \in Sessions : Lifecycle(g)
  \/ \E g \in Sessions, m \in RestartMessages : OnMessage(g, m)

SpecRestart == Init /\ [][NextRestart]_vars

\* The same with malformed audio payloads among the messages.
NextCodecError ==
  \/ NextAudio
  \/ \E g \in Sessions : OnMessage(g, MalformedMessage)

SpecCodecError == Init /\ [][NextCodecError]_vars

\* The same with transcript deltas among the messages.
NextInbound ==
  \/ NextAudio
  \/ \E g \in Sessions, m \in DeltaMessages : OnMessage(g, m)

SpecInbound == Init /\ [][NextInbound]_vars

\* ---------------------------------------------------- the mock payment flow

\* Delays of the three setTimeout calls, in tenths of a second.
ResetDelay == 3
ConfirmDelay == 20
SuccessDelay == 15

\* A pay-per-view video and a channel the user is not subscribed to.
Videos == {"video_ppv"}
Channels == {"ch_nature"}

DeclinedMessage == "Payment declined. Please try another card."

\* renderPaymentModal returns the modal.
ModalShown == isPaymentModalOpen /\ paymentItem # NoItem

\* setTimeout(callback, delay); item is the paymentItem the callback's closure
\* holds.
setTimeout(callback, item, delay) ==
  [id |-> nextTimeoutId, callback |-> callback, paymentItem |-> item,
   remaining |-> delay]

\* The timers of pending whose callback is the given one.
pendingIds(pending, callback) ==
  {pending[i].id : i \in {j \in DOMAIN pending : pending[j].callback = callback}}

\* pending without its i-th timer.
without(pending, i) ==
  SubSeq(pending, 1, i - 1) \o SubSeq(pending, i + 1, Len(pending))

handleInitiatePpvPurchase(video) ==
  /\ paymentItem' = [type |-> "ppv", id |-> video]
  /\ isPaymentModalOpen' = TRUE
  /\ UNCHANGED <<paymentState, paymentError, purchasedVideoIds, subscribedChannelIds,
                 timeouts, nextTimeoutId>>

handleSubscribeToggle(channelId) ==
  IF \E i \in DOMAIN subscribedChannelIds : subscribedChannelIds[i] = channelId
    THEN /\ subscribedChannelIds' =
              SelectSeq(subscribedChannelIds, LAMBDA id : id # channelId)
         /\ UNCHANGED <<isPaymentModalOpen, paymentItem, paymentState, paymentError,
                        purchasedVideoIds, timeouts, nextTimeoutId>>
    ELSE /\ paymentItem' = [type |-> "subscription", id |-> channelId]
         /\ isPaymentModalOpen' = TRUE
         /\ UNCHANGED <<paymentState, paymentError, purchasedVideoIds,
                        subscribedChannelIds, timeouts, nextTimeoutId>>

\* handleClosePaymentModal, called with the timers in pending still to run.
handleClosePaymentModal(pending) ==
  /\ isPaymentModalOpen' = FALSE
  /\ timeouts' = Append(pending, setTimeout("reset", NoItem, ResetDelay))
  /\ nextTimeoutId' = nextTimeoutId + 1
  /\ UNCHANGED <<paymentItem, paymentState, paymentError, purchasedVideoIds,
                 subscribedChannelIds>>

\* The callback of handleClosePaymentModal's timer.
resetTimeout(pending) ==
  /\ paymentItem' = NoItem
  /\ paymentState' = "idle"
  /\ paymentError' = ""
  /\ timeouts' = pending
  /\ UNCHANGED <<isPaymentModalOpen, purchasedVideoIds, subscribedChannelIds,
                 nextTimeoutId>>

handleConfirmPayment ==
  /\ paymentState' = "processing"
  /\ paymentError' = ""
  /\ timeouts' = Append(timeouts, setTimeout("confirm", paymentItem, ConfirmDelay))
  /\ nextTimeoutId' = nextTimeoutId + 1
  /\ UNCHANGED <<isPaymentModalOpen, paymentItem, purchasedVideoIds,
                 subscribedChannelIds>>

\* The callback of handleConfirmPayment's timer t; declined is the outcome of
\* Math.random() < 0.1, pending the timers still to run after t.
confirmTimeout(t, declined, pending) ==
  IF t.paymentItem = NoItem
    THEN /\ timeouts' = pending
         /\ UNCHANGED <<isPaymentModalOpen, paymentItem, paymentState, paymentError,
                        purchasedVideoIds, subscribedChannelIds, nextTimeoutId>>
    ELSE IF declined
    THEN /\ paymentState' = "error"
         /\ paymentError' = DeclinedMessage
         /\ timeouts' = pending
         /\ UNCHANGED <<isPaymentModalOpen, paymentItem, purchasedVideoIds,
                        subscribedChannelIds, nextTimeoutId>>
    ELSE /\ purchasedVideoIds' =
              IF t.paymentItem.type = "ppv"
                THEN Append(purchasedVideoIds, t.paymentItem.id)
                ELSE purchasedVideoIds
         /\ subscribedChannelIds' =
              IF t.paymentItem.type = "subscription"
                THEN Append(subscribedChannelIds, t.paymentItem.id)
                ELSE subscribedChannelIds
         /\ paymentState' = "success"
         /\ timeouts' = Append(pending, setTimeout("close", NoItem, SuccessDelay))
         /\ nextTimeoutId' = nextTimeoutId + 1
         /\ UNCHANGED <<isPaymentModalOpen, paymentItem, paymentError>>

\* The "Try Again" button of the error screen.
tryAgain ==
  /\ paymentState' = "idle"
  /\ UNCHANGED <<isPaymentModalOpen, paymentItem, paymentError, purchasedVideoIds,
                 subscribedChannelIds, timeouts, nextTimeoutId>>

\* The modal covers the page while it is shown, so the page's buttons can be
\* clicked only while it is not.
ClickBuyNow ==
  /\ ~ModalShown
  /\ opens < MaxOpens
  /\ \E video \in Videos : handleInitiatePpvPurchase(video)
  /\ opens' = opens + 1
  /\ closedProcessing' = FALSE
  /\ UNCHANGED <<submits, abandoned, liveView, codec, capture>>

ClickSubscribe ==
  /\ ~ModalShown
  /\ \E channelId \in Channels :
       /\ (\E i \in DOMAIN subscribedChannelIds : subscribedChannelIds[i] = channelId)
            \/ opens < MaxOpens
       /\ handleSubscribeToggle(channelId)
  /\ opens' = IF isPaymentModalOpen' /\ ~isPaymentModalOpen THEN opens + 1 ELSE opens
  /\ closedProcessing' = IF paymentItem' # paymentItem THEN FALSE ELSE closedProcessing
  /\ UNCHANGED <<submits, abandoned, liveView, codec, capture>>

\* The user clicks the backdrop or the close button of the modal.
ClickClose ==
  /\ ModalShown
  /\ handleClosePaymentModal(timeouts)
  /\ abandoned' = IF paymentState = "processing"
                    THEN abandoned \union pendingIds(timeouts, "confirm")
                    ELSE abandoned
  /\ closedProcessing' = (closedProcessing \/ paymentState = "processing")
  /\ UNCHANGED <<opens, submits, liveView, codec, capture>>

\* The user submits the card form, shown while paymentState is 'idle'.
SubmitPayment ==
  /\ ModalShown
  /\ paymentState = "idle"
  /\ submits < MaxSubmits
  /\ handleConfirmPayment
  /\ submits' = submits + 1
  /\ UNCHANGED <<opens, abandoned, closedProcessing, liveView, codec, capture>>

ClickTryAgain ==
  /\ ModalShown
  /\ paymentState = "error"
  /\ tryAgain
  /\ UNCHANGED <<opens, submits, abandoned, closedProcessing, liveView, codec, capture>>

\* A tenth of a second passes; a timer that is due runs first.
PaymentTick ==
  /\ timeouts # <<>>
  /\ \A i \in DOMAIN timeouts : timeouts[i].remaining > 0
  /\ timeouts' = [i \in DOMAIN timeouts |->
                    [timeouts[i] EXCEPT !.remaining = @ - 1]]
  /\ UNCHANGED <<isPaymentModalOpen, paymentItem, paymentState, paymentError,
                 purchasedVideoIds, subscribedChannelIds, nextTimeoutId,
                 opens, submits, abandoned, closedProcessing, liveView, codec, capture>>

\* The i-th pending timer is due and its callback runs.
Timeout(i) ==
  /\ i \in DOMAIN timeouts
  /\ timeouts[i].remaining = 0
  /\ \/ /\ timeouts[i].callback = "reset"
        /\ resetTimeout(without(timeouts, i))
     \/ /\ timeouts[i].callback = "close"
        /\ handleClosePaymentModal(without(timeouts, i))
     \/ /\ timeouts[i].callback = "confirm"
        /\ \E declined \in BOOLEAN :
             confirmTimeout(timeouts[i], declined, without(timeouts, i))
  /\ UNCHANGED <<opens, submits, abandoned, closedProcessing, liveView, codec, capture>>

NextPayment ==
  \/ ClickBuyNow
  \/ ClickSubscribe
  \/ ClickClose
  \/ SubmitPayment
  \/ ClickTryAgain
  \/ PaymentTick
  \/ \E i \in 1..(MaxOpens + 2 * MaxSubmits) : Timeout(i)

SpecPayment == Init /\ [][NextPayment]_vars

\* ----------------------------------------------------- the audio helpers

\* The base64 alphabet of btoa and atob.
Alphabet ==
  <<"A", "B", "C", "D", "E", "F", "G", "H", "I", "J", "K", "L", "M", "N", "O", "P",
    "Q", "R", "S", "T", "U", "V", "W", "X", "Y", "Z", "a", "b", "c", "d", "e", "f",
    "g", "h", "i", "j", "k", "l", "m", "n", "o", "p", "q", "r", "s", "t", "u", "v",
    "w", "x", "y", "z", "0", "1", "2", "3", "4", "5", "6", "7", "8", "9", "+", "/">>

\* A binary string is the sequence of its code units.  String.fromCharCode
\* takes its argument modulo 2^16.
fromCharCode(code) == code % 65536

\* charCodeAt with the high bit of the code unit dropped.
charCodeAt_Low7(binaryString, i) == binaryString[i + 1] % 128

\* binaryString.charCodeAt(i), i counted from 0.
charCodeAt(binaryString, i) == binaryString[i + 1]

\* A store into a Uint8Array keeps the value modulo 2^8.
Uint8(value) == value % 256

\* btoa: three code units become four characters, a last group of one or two
\* code units is padded with "=".
RECURSIVE btoa(_)
btoa(binaryString) ==
  LET n == Len(binaryString)
      c1 == binaryString[1]
      c2 == IF n >= 2 THEN binaryString[2] ELSE 0
      c3 == IF n >= 3 THEN binaryString[3] ELSE 0
  IN IF n = 0 THEN <<>>
     ELSE << Alphabet[(c1 \div 4) + 1],
             Alphabet[((c1 % 4) * 16 + (c2 \div 16)) + 1],
             IF n >= 2 THEN Alphabet[((c2 % 16) * 4 + (c3 \div 64)) + 1] ELSE "=",
             IF n >= 3 THEN Alphabet[(c3 % 64) + 1] ELSE "=" >>
          \o (IF n > 3 THEN btoa(SubSeq(binaryString, 4, n)) ELSE <<>>)

\* The six bits a character of the alphabet stands for.
sextet(char) == (CHOOSE i \in DOMAIN Alphabet : Alphabet[i] = char) - 1

\* atob: the padding is dropped, four characters become three code units, a
\* last group of two or three characters becomes one or two.
RECURSIVE atobSextets(_)
atobSextets(s) ==
  LET n == Len(s)
      s1 == s[1]
      s2 == s[2]
      s3 == IF n >= 3 THEN s[3] ELSE 0
      s4 == IF n >= 4 THEN s[4] ELSE 0
  IN IF n < 2 THEN <<>>
     ELSE << s1 * 4 + (s2 \div 16) >>
          \o (IF n >= 3 THEN << (s2 % 16) * 16 + (s3 \div 4) >> ELSE <<>>)
          \o (IF n >= 4 THEN << (s3 % 4) * 64 + s4 >> ELSE <<>>)
          \o (IF n > 4 THEN atobSextets(SubSeq(s, 5, n)) ELSE <<>>)

atob(base64) ==
  LET chars == SelectSeq(base64, LAMBDA c : c # "=")
  IN atobSextets([i \in DOMAIN chars |-> sextet(chars[i])])

\* decode(base64): atob, then one byte per code unit.
decode(base64) ==
  LET binaryString == atob(base64)
  IN [i \in 1..Len(binaryString) |-> Uint8(charCodeAt(binaryString, i - 1))]

\* encode(bytes): one code unit per byte, then btoa.
encode(bytes) ==
  btoa([i \in 1..Len(bytes) |-> fromCharCode(bytes[i])])

\* A sample of a Float32Array is the integer n that stands for n / 65536; a
\* value stored into an Int16Array or read from one is an integer; a sample of
\* an AudioBuffer channel is the integer k that stands for k / 32768.
SampleUnit == 65536

\* sample * 32768, truncated toward zero (the first step of the conversion a
\* store into an Int16Array applies).
scaledTruncated(sample) ==
  IF sample >= 0 THEN sample \div 2 ELSE -((-sample) \div 2)

\* A store into an Int16Array that clamps to the range of int16.
ToInt16_Clamp(integer) ==
  IF integer > 32767 THEN 32767 ELSE IF integer < -32768 THEN -32768 ELSE integer

\* A store into an Int16Array keeps the integer modulo 2^16, read as signed.
ToInt16(integer) == ((integer + 32768) % 65536) - 32768

\* new Uint8Array(int16.buffer): the two bytes of each element, low byte
\* first (the byte order of the platforms browsers run on).
Int16Bytes(int16) ==
  [i \in 1..(2 * Len(int16)) |->
     LET unsigned == int16[(i + 1) \div 2] % 65536
     IN IF i % 2 = 1 THEN unsigned % 256 ELSE unsigned \div 256]

\* new Int16Array(data.buffer): each pair of bytes, low byte first, read as a
\* signed 16-bit integer.
BytesInt16(bytes) ==
  [i \in 1..(Len(bytes) \div 2) |->
     ToInt16(bytes[2 * i - 1] + 256 * bytes[2 * i])]

\* createBlob(data).
createBlob(floats) ==
  LET int16 == [i \in 1..Len(floats) |-> ToInt16(scaledTruncated(floats[i]))]
  IN [data |-> encode(Int16Bytes(int16)), mimeType |-> "audio/pcm;rate=16000"]

\* decodeAudioData(data, ctx, 24000, 1): the samples of channel 0, in units
\* of 1 / 32768 (dataInt16[i] / 32768.0).
decodeAudioData(bytes) == BytesInt16(bytes)

\* The bytes and the samples the helpers are applied to.
ByteValues == {0, 1, 127, 128, 254, 255}
SampleCentres == {-2 * SampleUnit, -SampleUnit, 0, SampleUnit, 2 * SampleUnit}
SampleValues == {c + o : c \in SampleCentres, o \in (-MaxOffset)..MaxOffset}

BoundedSeq(S, n) == UNION {[1..k -> S] : k \in 0..n}

InitTransport ==
  /\ InitLiveView /\ InitPayment /\ InitCapture /\ InitCodecOutputs
  /\ byteInput \in BoundedSeq(ByteValues, MaxBytes)
  /\ floatInput = <<>>

InitPcm ==
  /\ InitLiveView /\ InitPayment /\ InitCapture /\ InitCodecOutputs
  /\ byteInput = <<>>
  /\ floatInput \in BoundedSeq(SampleValues, MaxSamples)

\* encode(bytes) is applied to the input bytes.
Encode ==
  /\ transportPc = "input"
  /\ encoded' = encode(byteInput)
  /\ transportPc' = "encoded"
  /\ UNCHANGED <<byteInput, floatInput, byteOutput, blob, channelData, pcmPc,
                 liveView, payment, capture>>

\* decode(base64) is applied to the text encode returned.
Decode ==
  /\ transportPc = "encoded"
  /\ byteOutput' = decode(encoded)
  /\ transportPc' = "decoded"
  /\ UNCHANGED <<byteInput, floatInput, encoded, blob, channelData, pcmPc,
                 liveView, payment, capture>>

\* createBlob(inputData) is applied to the input samples.
CreateBlob ==
  /\ pcmPc = "input"
  /\ blob' = createBlob(floatInput)
  /\ pcmPc' = "blob"
  /\ UNCHANGED <<byteInput, floatInput, encoded, byteOutput, channelData, transportPc,
                 liveView, payment, capture>>

\* decodeAudioData(decode(data), ...) is applied to the blob's data.
DecodeAudioData ==
  /\ pcmPc = "blob"
  /\ channelData' = decodeAudioData(decode(blob.data))
  /\ pcmPc' = "buffer"
  /\ UNCHANGED <<byteInput, floatInput, encoded, byteOutput, blob, transportPc,
                 liveView, payment, capture>>

NextTransport == Encode \/ Decode

SpecTransport == InitTransport /\ [][NextTransport]_vars

NextPcm == CreateBlob \/ DecodeAudioData

SpecPcm == InitPcm /\ [][NextPcm]_vars

\* ------------------------------------------------- the capture pipeline

\* A frame whose image encoding was requested by the timer of session g's
\* onopen; pc is "toBlob" until the toBlob callback runs and "reading" while
\* blobToBase64 is awaited.
FrameJob(g) == [timer |-> g, pc |-> "toBlob"]

\* sessionRef.current.then(session => session.sendRealtimeInput(...)): the
\* callback runs in the microtasks of the calling task when the promise the
\* ref holds is resolved, and the call is made on that promise's connection.
\* (A promise that is still pending is not met here: the processor and the
\* timer exist only once onopen has run.)
sendRealtimeInput ==
  IF sessionRef # NoRef /\ promise[sessionRef] = "resolved"
    THEN sends' = [sends EXCEPT ![sessionRef] = @ + 1]
    ELSE UNCHANGED sends

\* onaudioprocess: createBlob, then the send if sessionRef holds a promise.
onaudioprocess == sendRealtimeInput

\* The callback of canvasEl.toBlob for job i; encoded tells whether a blob
\* was produced.
toBlobCallback(i, encodedBlob) ==
  IF encodedBlob /\ sessionRef # NoRef
    THEN frameJobs' = [frameJobs EXCEPT ![i].pc = "reading"]
    ELSE frameJobs' = without(frameJobs, i)

\* The toBlob callback of job i after its await of blobToBase64.  With an
\* empty sessionRef, sessionRef.current.then throws.
toBlobAfterRead(i) ==
  /\ frameJobs' = without(frameJobs, i)
  /\ sendRealtimeInput

\* The audio thread has filled a block of 4096 samples for the processor of
\* session g and queues its audioprocess event.
AudioBlock(g) ==
  /\ proc[g] = "connected"
  /\ blocks < MaxBlocks
  /\ blocks' = blocks + 1
  /\ audioQueue' = [audioQueue EXCEPT ![g] = @ + 1]
  /\ UNCHANGED <<frameJobs, frames, sends, liveView, payment, codec>>

\* A queued audioprocess event of session g's processor is dispatched.  An
\* event queued before the processor was disconnected is still dispatched.
AudioProcess(g) ==
  /\ microtasks = <<>>
  /\ decoding = <<>>
  /\ audioQueue[g] > 0
  /\ audioQueue' = [audioQueue EXCEPT ![g] = @ - 1]
  /\ onaudioprocess
  /\ UNCHANGED <<frameJobs, frames, blocks, liveView, payment, codec>>

\* The frame timer of session g fires; videoReady is readyState >= 2.
FrameTick(g) ==
  /\ microtasks = <<>>
  /\ decoding = <<>>
  /\ timer[g] = "running"
  /\ frames < MaxFrames
  /\ frames' = frames + 1
  /\ \E videoReady \in BOOLEAN :
       frameJobs' = IF videoReady THEN Append(frameJobs, FrameJob(g)) ELSE frameJobs
  /\ UNCHANGED <<audioQueue, blocks, sends, liveView, payment, codec>>

\* toBlob has finished for job i and calls back.
ToBlobCallback(i) ==
  /\ microtasks = <<>>
  /\ decoding = <<>>
  /\ i \in DOMAIN frameJobs
  /\ frameJobs[i].pc = "toBlob"
  /\ \E encodedBlob \in BOOLEAN : toBlobCallback(i, encodedBlob)
  /\ UNCHANGED <<audioQueue, blocks, frames, sends, liveView, payment, codec>>

\* The FileReader of job i has finished: blobToBase64 resolves.
FrameRead(i) ==
  /\ microtasks = <<>>
  /\ decoding = <<>>
  /\ i \in DOMAIN frameJobs
  /\ frameJobs[i].pc = "reading"
  /\ toBlobAfterRead(i)
  /\ UNCHANGED <<audioQueue, blocks, frames, liveView, payment, codec>>

\* The capture pipeline of a view's first session: its life cycle with the
\* audio blocks and video frames it captures.
NextCapture ==
  \/ FirstStart
  \/ CallStop
  \/ StopResume
  \/ \E g \in Sessions : Lifecycle(g) \/ AudioBlock(g) \/ AudioProcess(g) \/ FrameTick(g)
  \/ \E i \in 1..MaxFrames : ToBlobCallback(i) \/ FrameRead(i)

SpecCapture == Init /\ [][NextCapture]_vars

\* ---------------------------------------------------------------- claims

LiveConnections == {g \in Sessions : conn[g] \in {"connecting", "open"}}
LiveStreams == {g \in Sessions : stream[g] = "live"}
OpenContexts == {g \in Sessions : inCtx[g] = "open" \/ outCtx[g] = "open"}
ActiveProcessors ==
  {g \in Sessions : proc[g] = "connected" /\ inCtx[procCtx[g]] = "open"}
RunningTimers == {g \in Sessions : timer[g] = "running"}

\* C1: connectionState moves only along disconnected -> connecting ->
\* connected -> {disconnected | error} (with the restart error -> connecting
\* and the early ends connecting -> {disconnected | error}); it becomes
\* 'connecting' only by a startLiveSession call and 'connected' only from
\* 'connecting'.
C1_Transitions ==
  {<<"disconnected", "connecting">>, <<"error", "connecting">>,
   <<"connecting", "connected">>, <<"connecting", "disconnected">>,
   <<"connecting", "error">>, <<"connected", "disconnected">>,
   <<"connected", "error">>}

C1_StateMachine ==
  [][connectionState' # connectionState =>
       /\ <<connectionState, connectionState'>> \in C1_Transitions
       /\ (connectionState' = "connecting" => userStarts' = userStarts + 1)
       /\ (connectionState' = "connected" => connectionState = "connecting")]_vars

\* C2: 'error' is terminal until the next startLiveSession call: the close
\* event that follows an error event of the same connection leaves
\* connectionState at 'error'.
C2_ErrorIsTerminal ==
  [][\A g \in Sessions :
       (conn[g] = "errored" /\ conn'[g] = "closed" /\ connectionState = "error")
         => connectionState' = "error"]_vars

\* C3: at every moment at most one connection is open or opening, at most one
\* device stream is live, at most one pair of audio contexts is open, and at
\* most one block processor and one frame timer are active.
C3_SingleInstance ==
  /\ Cardinality(LiveConnections) <= 1
  /\ Cardinality(LiveStreams) <= 1
  /\ Cardinality(OpenContexts) <= 1
  /\ Cardinality(ActiveProcessors) <= 1
  /\ Cardinality(RunningTimers) <= 1

\* C4: once a stopLiveSession call has completed, and until the next
\* startLiveSession call, connectionState is 'disconnected', no connection is
\* open or opening, no device stream is live and no audio context is open.
C4_StopSettles ==
  stopDoneSinceStart =>
    /\ connectionState = "disconnected"
    /\ LiveConnections = {}
    /\ LiveStreams = {}
    /\ OpenContexts = {}

\* What a user of the component can observe of it: the React state, the refs
\* and the state of every device, context and connection.
Observable ==
  <<reactState, refs, stream, inCtx, outCtx, proc, timer, conn, promise>>

\* C5: a stopLiveSession call that completes right after another one leaves
\* the observable state as the first left it, and does not invoke close() on
\* the connection again.
C5_StopTwice ==
  [][(stopRun >= 1 /\ stopRun' = stopRun + 1)
       => (Observable' = Observable /\ closeCalls' = closeCalls)]_vars

\* The observable half of C5 alone.
C5_StopTwiceObservable ==
  [][(stopRun >= 1 /\ stopRun' = stopRun + 1) => Observable' = Observable]_vars

\* C6: a stopLiveSession call before any startLiveSession call changes
\* nothing: state, transcript, buffers, error message, playback schedule,
\* refs, devices and connections are as they were.
C6_StopBeforeStart ==
  [][(userStarts = 0 /\ stopRun' = stopRun + 1)
       => UNCHANGED <<reactState, refs, objects, control>>]_vars

C6_Witness == userStarts = 0 /\ stopRun >= 1

\* C7: the turn a turn-complete event appends in a connected session holds
\* the deltas received since the previous turn-complete, in arrival order,
\* each once: the user entry the input deltas, the assistant entry the output
\* deltas.
C7_TurnText ==
  [][(turnCompletes' = turnCompletes + 1 /\ connectionState = "connected"
        /\ Len(history') >= 2)
       => /\ history'[Len(history') - 1].text = lastIn'
          /\ history'[Len(history')].text = lastOut']_vars

\* C8: a turn-complete event appends exactly two entries, 'You' then
\* 'Gemini', keeps the earlier entries as they were, and leaves both buffers
\* empty.
C8_TurnCompleteAppendsPair ==
  [][turnCompletes' = turnCompletes + 1
       => /\ Len(history') = Len(history) + 2
          /\ SubSeq(history', 1, Len(history)) = history
          /\ history'[Len(history) + 1].author = "You"
          /\ history'[Len(history) + 2].author = "Gemini"
          /\ currentInput' = <<>>
          /\ currentOutput' = <<>>]_vars

\* A second turn was appended behind a first one, after text was buffered.
C8_Witness ==
  /\ turnCompletes = 2
  /\ Len(history) = 4
  /\ lastIn # <<>>
  /\ currentInput = <<>>
  /\ currentOutput = <<>>

\* C9: an error event of a connected session's connection sets 'error' and a
\* message, and leaves that session's device stream stopped, its block
\* processor disconnected and its two audio contexts closed.
C9_ErrorTeardown ==
  [][\A g \in Sessions :
       (conn[g] = "open" /\ conn'[g] = "errored" /\ connectionState = "connected")
         => /\ connectionState' = "error"
            /\ errorMessage' # NoMessage
            /\ stream'[g] # "live"
            /\ proc'[g] # "connected"
            /\ inCtx'[g] # "open"
            /\ outCtx'[g] # "open"]_vars

\* C10: after the session of the last start has failed (permission refused,
\* or an error event), no device stream is acquired and no connection is
\* requested until the user calls startLiveSession again.
C10_NoRetry ==
  [][(failedSinceStart /\ userStarts' = userStarts)
       => \A g \in Sessions :
            /\ (stream[g] = "none" => stream'[g] = "none")
            /\ (conn[g] = "none" => conn'[g] = "none")]_vars

\* C11: when a startLiveSession call fails before its connection is opened
\* (getUserMedia rejects, or a later statement of the try block throws),
\* connectionState becomes 'error' with a message, the call has no connection,
\* and no device stream or audio context the call acquired stays open.
C11_StartFailure ==
  [][\A g \in Sessions :
       (startPc[g] = "awaitMedia" /\ startPc'[g] = "failed")
         => /\ connectionState' = "error"
            /\ errorMessage' # NoMessage
            /\ conn'[g] \notin {"connecting", "open"}
            /\ stream'[g] # "live"
            /\ inCtx'[g] # "open"
            /\ outCtx'[g] # "open"]_vars

\* C12: once the view is unmounted and no stopLiveSession call is still
\* suspended, no device stream is live, no audio context is open, no frame
\* timer runs and no connection is open or opening.
C12_UnmountReleases ==
  (~mounted /\ stopAwait = <<>> /\ microtasks = <<>>)
    => /\ LiveStreams = {}
       /\ OpenContexts = {}
       /\ RunningTimers = {}
       /\ LiveConnections = {}

\* C13: a close event of an open or closing connection sets 'disconnected'
\* and leaves that session's block processor disconnected, its device stream
\* stopped, its two audio contexts closed and its frame timer cleared.
C13_CloseTeardown ==
  [][\A g \in Sessions :
       (conn[g] \in {"open", "closing"} /\ conn'[g] = "closed")
         => /\ connectionState' = "disconnected"
            /\ proc'[g] # "connected"
            /\ stream'[g] # "live"
            /\ inCtx'[g] # "open"
            /\ outCtx'[g] # "open"
            /\ timer'[g] # "running"]_vars

C15_CaptureOnOpen ==
  [][/\ \A g \in Sessions :
          /\ ((proc[g] # "connected" /\ proc'[g] = "connected")
                \/ (timer[g] # "running" /\ timer'[g] = "running"))
               => /\ conn[g] = "connecting" /\ conn'[g] = "open"
                  /\ connectionState # "connected"
                  /\ connectionState' = "connected"
          /\ (conn[g] = "connecting" /\ conn'[g] = "open")
               => /\ connectionState' = "connected"
                  /\ proc'[g] = "connected"
                  /\ mounted => timer'[g] = "running"
     /\ connectionState' = "connecting"
          => (ActiveProcessors' = {} /\ RunningTimers' = {})]_vars

\* The end of a source's playback interval on its output clock.
EndTime(source) == source.start + source.duration

\* C16: the playback intervals scheduled on one output clock never overlap:
\* in scheduling order, each source starts no earlier than the source before
\* it ends (so start times are non-decreasing), whatever the clock readings
\* and however many onmessage handlers were suspended at once.
C16_NoOverlap ==
  \A i, j \in DOMAIN sources :
    (i < j /\ sources[i].context = sources[j].context)
      => sources[j].start >= EndTime(sources[i])

\* Three buffers were scheduled in one session: the second after the clock
\* had passed the end of the first, the third right behind the second.
C16_Witness ==
  /\ Len(sources) = 3
  /\ sources[2].start > EndTime(sources[1])
  /\ sources[3].start = EndTime(sources[2])

\* The later of two times.
Later(a, b) == IF a > b THEN a ELSE b

\* C17: a handler that receives inline audio raises nextStartTime to the
\* clock reading; the decoded buffer is started at max(nextStartTime,
\* clock.currentTime), which is the value nextStartTime then holds, and
\* nextStartTime becomes that start time plus the buffer's duration.
C17_ScheduleRule ==
  [][/\ Len(decoding') > Len(decoding)
          => nextStartTimeRef' = Later(nextStartTimeRef, clock[outputAudioContextRef])
     /\ Len(sources') > Len(sources)
          => LET source == sources'[Len(sources')]
             IN /\ source.start = Later(nextStartTimeRef, clock[source.context])
                /\ nextStartTimeRef' = source.start + source.duration]_vars

\* Buffers of 1.0 s, 0.5 s and 0.2 s arrived at clock time 0 and start at 0,
\* 1.0 and 1.5.
C17_Witness ==
  /\ Len(sources) = 3
  /\ clock[1] = 0
  /\ <<sources[1].duration, sources[2].duration, sources[3].duration>> = <<10, 5, 2>>
  /\ <<sources[1].start, sources[2].start, sources[3].start>> = <<0, 10, 15>>
  /\ nextStartTimeRef = 17

\* A step that runs the teardown: a stopLiveSession call completes, or an
\* error or close event of a connection is handled.
TeardownStep ==
  \/ stopRun' = stopRun + 1
  \/ \E g \in Sessions :
       \/ conn[g] # "errored" /\ conn'[g] = "errored"
       \/ conn[g] \in {"open", "closing", "errored"} /\ conn'[g] = "closed"

\* C18: after a teardown (stopLiveSession, close event or error event) the
\* active-source set is empty and no source that has not ended is on an open
\* output context.
C18_StopAll ==
  [][TeardownStep
       => /\ sourcesRef' = {}
          /\ \A i \in DOMAIN sources' :
               sources'[i].state = "scheduled"
                 => outCtx'[sources'[i].context] # "open"]_vars

\* C19: the active-source set holds exactly the sources that were scheduled
\* and have not ended.
C19_ActiveSet ==
  sourcesRef = {i \in DOMAIN sources : sources[i].state = "scheduled"}

\* Of three scheduled sources the first has ended and left the set, the other
\* two are in it.
C19_Witness ==
  /\ Len(sources) = 3
  /\ sources[1].state = "ended"
  /\ sourcesRef = {2, 3}

\* The place of a release call in cleanupAudio's order of statements.
Rank(call) ==
  CASE call = "clearInterval" -> 1
    [] call = "scriptProcessor.disconnect" -> 2
    [] call = "mediaStreamSource.disconnect" -> 3
    [] call = "track.stop" -> 4
    [] call = "inputAudioContext.close" -> 5
    [] call = "outputAudioContext.close" -> 6

\* The object of a release call is in use before the call.
InUse(release) ==
  LET g == release.object
  IN CASE release.call = "clearInterval" -> timer[g] = "running"
       [] release.call \in {"scriptProcessor.disconnect", "mediaStreamSource.disconnect"}
            -> proc[g] = "connected"
       [] release.call = "track.stop" -> stream[g] = "live"
       [] release.call = "inputAudioContext.close" -> inCtx[g] = "open"
       [] release.call = "outputAudioContext.close" -> outCtx[g] = "open"

\* C20: a teardown makes its release calls in the order frame timer, block
\* processor, device tracks, input context, output context; it releases every
\* resource a ref holds, makes no call on a resource that is already
\* released, and leaves every resource ref empty, so that a teardown run
\* again releases nothing.
C20_Teardown ==
  [][TeardownStep
       => /\ \A i, j \in DOMAIN released' :
               i < j => Rank(released'[i].call) < Rank(released'[j].call)
          /\ \A i \in DOMAIN released' : InUse(released'[i])
          /\ frameIntervalRef # NoRef => timer'[frameIntervalRef] = "cleared"
          /\ scriptProcessorRef # NoRef => proc'[scriptProcessorRef] = "disconnected"
          /\ mediaStreamRef # NoRef => stream'[mediaStreamRef] = "stopped"
          /\ inputAudioContextRef # NoRef => inCtx'[inputAudioContextRef] = "closed"
          /\ outputAudioContextRef # NoRef => outCtx'[outputAudioContextRef] = "closed"
          /\ frameIntervalRef' = NoRef
          /\ scriptProcessorRef' = NoRef
          /\ mediaStreamSourceRef' = NoRef
          /\ mediaStreamRef' = NoRef
          /\ inputAudioContextRef' = NoRef
          /\ outputAudioContextRef' = NoRef]_vars

\* A teardown released all of the resources, and a second one, with every
\* resource absent, released nothing.
C20_Witness ==
  /\ stopRun = 2
  /\ released = <<>>
  /\ \E g \in Sessions :
       /\ timer[g] = "cleared"
       /\ proc[g] = "disconnected"
       /\ stream[g] = "stopped"
       /\ inCtx[g] = "closed"
       /\ outCtx[g] = "closed"

\* The ids of the timers in pending.
timerIds(pending) == {pending[i].id : i \in DOMAIN pending}

\* C30: closing the payment modal while the payment is 'processing' cancels
\* it: the confirmation timer that was pending at the close adds no id to
\* purchasedVideoIds or subscribedChannelIds when it runs, and paymentState is
\* 'idle' when the modal is opened the next time.
C30_CloseCancels ==
  [][/\ \A i \in DOMAIN timeouts :
          (timeouts[i].id \in abandoned /\ timeouts[i].id \notin timerIds(timeouts'))
            => /\ purchasedVideoIds' = purchasedVideoIds
               /\ subscribedChannelIds' = subscribedChannelIds
     /\ (closedProcessing /\ opens' = opens + 1) => paymentState' = "idle"]_vars

\* The deltas that arrived in a step that took the arrivals from before to after.
Arrived(before, after) == SubSeq(after, Len(before) + 1, Len(after))

\* C21: inbound events take effect in arrival order although onmessage
\* suspends at an await: the transcript buffers hold the deltas of the turn
\* in the order their messages arrived, and of two scheduled audio payloads
\* the one whose message arrived first starts first on the output clock.
C21_ArrivalOrder ==
  [][/\ (delivered' = delivered + 1 /\ turnCompletes' = turnCompletes)
          => /\ currentInput' = currentInput \o Arrived(turnIn, turnIn')
             /\ currentOutput' = currentOutput \o Arrived(turnOut, turnOut')
     /\ \A i, j \in DOMAIN sources' :
          sources'[i].message < sources'[j].message
            => sources'[i].start < sources'[j].start]_vars

\* Two messages with an output delta and inline audio each were delivered and
\* both payloads are scheduled.
C21_Witness ==
  /\ Len(sources) = 2
  /\ sources[1].message # sources[2].message
  /\ Len(currentOutput) = 2
  /\ currentOutput[1] # currentOutput[2]

\* The parts of the state a dropped message must leave alone: the connection
\* state, the capture pipeline, the output context, the scheduled sources and
\* the handlers suspended at their await.
C22_Confined ==
  UNCHANGED <<connectionState, errorMessage, sessionRef, inputAudioContextRef,
              outputAudioContextRef, scriptProcessorRef, mediaStreamSourceRef,
              mediaStreamRef, frameIntervalRef, sourcesRef, stream, inCtx, outCtx,
              proc, procCtx, timer, conn, promise, sources, released, decoding>>

\* C22 as stated: a malformed inbound audio payload does not end the session;
\* connectionState, the capture pipeline, nextStartTime and the active-source
\* set are unchanged by its message.
C22_MalformedDropped ==
  [][(delivered' = delivered + 1 /\ lastMalformed')
       => (C22_Confined /\ nextStartTimeRef' = nextStartTimeRef)]_vars

\* C22, amended: a malformed inbound audio payload does not end the session;
\* connectionState, the capture pipeline and the active-source set are
\* unchanged by its message, and nextStartTime is unchanged or raised to the
\* output clock's reading, which is the value the next payload's schedule
\* would start from anyway.
C22_MalformedDroppedAfterMax ==
  [][(delivered' = delivered + 1 /\ lastMalformed')
       => /\ C22_Confined
          /\ nextStartTimeRef' =
               IF outputAudioContextRef = NoRef
                 THEN nextStartTimeRef
                 ELSE Later(nextStartTimeRef, clock[outputAudioContextRef])]_vars

\* The first message was malformed and the payload of the second is
\* scheduled while the session is connected.
C22_Witness ==
  /\ connectionState = "connected"
  /\ Len(sources) = 1
  /\ sources[1].message = 2

\* |a|.
Abs(a) == IF a >= 0 THEN a ELSE -a

\* C23: for every sample x in [-1, 1], endpoints included, decoding the 16-bit
\* PCM that createBlob's conversion produces with decodeAudioData's conversion
\* gives a value within 1/32768 of x.  (k / 32768 is within 1 / 32768 of
\* n / 65536 when |2k - n| <= 2.)
C23_PcmRoundTrip ==
  pcmPc = "buffer"
    => /\ Len(channelData) = Len(floatInput)
       /\ \A i \in DOMAIN floatInput :
            (-SampleUnit <= floatInput[i] /\ floatInput[i] <= SampleUnit)
              => Abs(2 * channelData[i] - floatInput[i]) <= 2

\* C24: for every byte sequence b, of any length including 0,
\* decode(encode(b)) equals b: the same length and the same byte at every index.
C24_TransportRoundTrip ==
  transportPc = "decoded"
    => /\ Len(byteOutput) = Len(byteInput)
       /\ \A i \in DOMAIN byteInput : byteOutput[i] = byteInput[i]

\* A sequence with a padded last group and bytes above 127 went through
\* encode and decode.
C24_Witness ==
  /\ transportPc = "decoded"
  /\ Len(byteInput) = 4
  /\ byteInput[1] = 255
  /\ byteInput[4] = 128
  /\ encoded[7] = "="

\* The 16-bit signed integer the bytes at 2i - 1 and 2i stand for, low byte
\* first.
LowFirst(bytes, i) ==
  LET unsigned == bytes[2 * i - 1] + 256 * bytes[2 * i]
  IN IF unsigned >= 32768 THEN unsigned - 65536 ELSE unsigned

\* C25: createBlob multiplies each sample by 32768, truncates toward zero and
\* stores the result as a 16-bit signed integer without clamping: the stored
\* value is congruent to the truncated product modulo 2^16 (so a sample of
\* exactly 1.0 is encoded as -32768), and the two bytes of each sample are
\* emitted low byte first.
C25_NoClamp ==
  pcmPc # "input"
    => LET bytes == decode(blob.data)
       IN /\ Len(bytes) = 2 * Len(floatInput)
          /\ \A i \in DOMAIN floatInput :
               /\ (LowFirst(bytes, i) - scaledTruncated(floatInput[i])) % 65536 = 0
               /\ floatInput[i] = SampleUnit => LowFirst(bytes, i) = -32768

\* A sample of exactly 1.0 and one above the range went through createBlob.
C25_Witness ==
  /\ pcmPc = "blob"
  /\ floatInput = <<SampleUnit, 2 * SampleUnit + 1>>
  /\ decode(blob.data) = <<0, 128, 0, 0>>

\* The source the step schedules is the first one of its session: its
\* message came on the session's own connection and no source was scheduled
\* in the session's output context before.
FirstOfSession ==
  /\ Len(sources') = Len(sources) + 1
  /\ sources'[Len(sources')].session = sources'[Len(sources')].context
  /\ \A i \in DOMAIN sources : sources[i].context # sources'[Len(sources')].context

\* C26: each session starts its playback schedule afresh: the first decoded
\* audio buffer of a session, the first or a later one of the view, is
\* scheduled at the current time of that session's output clock.
C26_FreshSchedule ==
  [][FirstOfSession
       => sources'[Len(sources')].start = clock[sources'[Len(sources')].context]]_vars

\* text is the end of the sequence received.
EndOf(text, received) ==
  /\ Len(text) <= Len(received)
  /\ text = SubSeq(received, Len(received) - Len(text) + 1, Len(received))

\* C27: partial transcript text never crosses sessions: when a session enters
\* 'connecting' through startLiveSession both buffers are empty, and the user
\* turn appended at a turn-complete holds only text received in the session
\* of the message.
C27_NoCarryOver ==
  [][/\ (userStarts' = userStarts + 1)
          => (currentInput' = <<>> /\ currentOutput' = <<>>)
     /\ (turnCompletes' = turnCompletes + 1)
          => /\ EndOf(history'[Len(history') - 1].text, lastIn')
             /\ EndOf(history'[Len(history')].text, lastOut')]_vars

\* The connection of an earlier session, closed by stopLiveSession, runs a
\* callback in this step: it leaves the open or closing state, or it delivers
\* a message while the latest session has no open connection.
LateCallback ==
  \E g \in Sessions :
    /\ g < gen
    /\ closeCalls[g] > 0
    /\ \/ conn[g] \in {"open", "closing"} /\ conn'[g] \in {"closed", "errored"}
       \/ /\ conn[g] \in {"open", "closing"}
          /\ conn[gen] \notin {"open", "closing"}
          /\ delivered' = delivered + 1

\* C28: callbacks of an earlier connection never disturb a later session:
\* after stopLiveSession() and a later startLiveSession(), a late onclose,
\* onerror or onmessage of the earlier connection leaves the later session's
\* connectionState, device stream, audio contexts, block processor and
\* transcript buffers unchanged.
C28_LateCallbacks ==
  [][LateCallback
       => /\ UNCHANGED <<connectionState, currentInput, currentOutput>>
          /\ stream'[gen] = stream[gen]
          /\ inCtx'[gen] = inCtx[gen]
          /\ outCtx'[gen] = outCtx[gen]
          /\ proc'[gen] = proc[gen]]_vars

\* C29: no outbound payload is sent on a connection after it has been closed
\* or has reported an error: every sendRealtimeInput call is made on a
\* connection that is open, also for an audio block already captured or a
\* frame whose image encoding was in flight at the teardown.
C29_NoSendAfterClose ==
  [][\A g \in Sessions : sends'[g] > sends[g] => conn[g] = "open"]_vars

====
